---- MODULE Spec2Model ----
(***************************************************************************)
(* TextRenderer2 of glyphon (src/src/text_render2.rs): the glyph           *)
(* preparation pipeline (prepare_text_areas, prepare_glyph), the vertex    *)
(* buffer manager (prepare_renderable_text_areas) and render.              *)
(*                                                                         *)
(* Coordinates are whole device pixels and the scale factor is 1, so the   *)
(* f32 arithmetic of the source is integer arithmetic here.  The atlas     *)
(* (TextAtlas / InnerAtlas: try_allocate, grow, inner_for_content_mut) is  *)
(* not part of the two source files; it is modelled from the contract in   *)
(* section 4.1 of the specification.                                       *)
(***************************************************************************)
EXTENDS Integers, Sequences, FiniteSets, TLC

VARIABLES
    atlas,               \* TextAtlas: mask_atlas, color_atlas, color_mode
    buffers,             \* the device's buffers, by handle: size, data, destroyed
    vertex_buffer,       \* TextRenderer2.vertex_buffer (a handle into buffers)
    vertex_buffer_size,  \* TextRenderer2.vertex_buffer_size
    glyph_vertices_len,  \* TextRenderer2.glyph_vertices_len
    last_op,             \* the call that produced this state
    prep,                \* what the last preparation call did and returned
    asm,                 \* what the last assembly call did
    pass                 \* what the last render call recorded into the pass, and
                         \* the call it came after

vars == <<atlas, buffers, vertex_buffer, vertex_buffer_size, glyph_vertices_len,
          last_op, prep, asm, pass>>

---------------------------------------------------------------------------
(* Bounds of the model *)

InitialAtlasSize == 1      \* side of a fresh atlas texture
MaxAtlasSize == 2          \* growth ceiling of an atlas texture
ViewportWidth == 4         \* viewport.resolution().width
ViewportHeight == 4        \* viewport.resolution().height

(* Program constants *)

InitialBufferSize == 4096      \* next_copy_buffer_size(4096) in new
COPY_BUFFER_ALIGNMENT == 4     \* wgpu::COPY_BUFFER_ALIGNMENT
GlyphToRenderSize == 28        \* size_of::<GlyphToRender>(): 2 i32, 4 u16, u32, 2 u16, f32
U16 == 65536

---------------------------------------------------------------------------
(* Small helpers *)

Max(a, b) == IF a >= b THEN a ELSE b
Min(a, b) == IF a <= b THEN a ELSE b

\* `v as u16` of an i32
AsU16(v) == v % U16

RECURSIVE Pow2AtLeast(_, _)
Pow2AtLeast(n, p) == IF p >= n THEN p ELSE Pow2AtLeast(n, 2 * p)

\* u64::next_power_of_two
next_power_of_two(n) == Pow2AtLeast(n, 1)

\* (x + mask) & !mask for a mask of the form 2^k - 1
AlignUp(x, align) == ((x + (align - 1)) \div align) * align

\* (a size that is aligned but not rounded up to a power of two)
next_copy_buffer_size_aligned(size) ==
    Max(AlignUp(size, COPY_BUFFER_ALIGNMENT), COPY_BUFFER_ALIGNMENT)

next_copy_buffer_size(size) ==
    Max(AlignUp(next_power_of_two(size), COPY_BUFFER_ALIGNMENT), COPY_BUFFER_ALIGNMENT)

RECURSIVE FlattenSeqs(_)
FlattenSeqs(ss) == IF ss = <<>> THEN <<>> ELSE Head(ss) \o FlattenSeqs(Tail(ss))

---------------------------------------------------------------------------
(* Cache keys, glyph details *)

TextKey(id) == [kind |-> "Text", id |-> id, width |-> 0, height |-> 0]
CustomKey(id, w, h) == [kind |-> "Custom", id |-> id, width |-> w, height |-> h]

\* (x and y exchanged)
InAtlasTransposed(x, y, content_type) ==
    [tag |-> "InAtlas", x |-> y, y |-> x, content_type |-> content_type]

InAtlas(x, y, content_type) ==
    [tag |-> "InAtlas", x |-> x, y |-> y, content_type |-> content_type]
SkipRasterization ==
    [tag |-> "SkipRasterization", x |-> 0, y |-> 0, content_type |-> "None"]

\* Option<T>: <<>> is None, <<v>> is Some(v)
None == <<>>
Some(v) == <<v>>
IsSome(o) == o # <<>>
Unwrap(o) == o[1]

---------------------------------------------------------------------------
(* The atlas, from section 4.1 of the specification *)

\* an empty map is the empty function
EmptyCache == [k \in {} |-> 0]

NewInnerAtlas ==
    [size |-> InitialAtlasSize, allocations |-> {}, next_id |-> 1,
     glyph_cache |-> EmptyCache]

NewAtlas(color_mode) ==
    [mask_atlas |-> NewInnerAtlas, color_atlas |-> NewInnerAtlas,
     color_mode |-> color_mode]

inner_for_content(a, content_type) ==
    IF content_type = "Color" THEN a.color_atlas ELSE a.mask_atlas

with_inner(a, content_type, inner) ==
    IF content_type = "Color" THEN [a EXCEPT !.color_atlas = inner]
                              ELSE [a EXCEPT !.mask_atlas = inner]

RectsOverlap(ax, ay, aw, ah, bx, by, bw, bh) ==
    /\ ax < bx + bw /\ bx < ax + aw
    /\ ay < by + bh /\ by < ay + ah

FreeAt(inner, x, y, w, h) ==
    /\ x + w <= inner.size
    /\ y + h <= inner.size
    /\ \A r \in inner.allocations :
          ~RectsOverlap(x, y, w, h, r.x, r.y, r.w, r.h)

FreeOrigins(inner, w, h) ==
    {p \in (0..(inner.size - 1)) \X (0..(inner.size - 1)) : FreeAt(inner, p[1], p[2], w, h)}

\* try_allocate: the first free origin in row-major order, or None.
\* Returns <<inner', Option<allocation>>>.
try_allocate(inner, w, h) ==
    LET free == FreeOrigins(inner, w, h) IN
    IF free = {} THEN <<inner, None>>
    ELSE LET p == CHOOSE q \in free :
                     \A o \in free : q[2] * inner.size + q[1] <= o[2] * inner.size + o[1]
             a == [id |-> inner.next_id, x |-> p[1], y |-> p[2], w |-> w, h |-> h]
         IN  <<[inner EXCEPT !.allocations = @ \cup {a}, !.next_id = @ + 1], Some(a)>>

\* grow of one inner atlas: the side doubles up to the ceiling.  Resident
\* rectangles are preserved in place, or relocated (here: shifted right by
\* the old side) together with their cache entries.
GrownSize(size) == Min(2 * size, MaxAtlasSize)

RelocateDetails(d, shift) ==
    IF d.gpu_cache.tag = "InAtlas"
    THEN [d EXCEPT !.gpu_cache.x = @ + shift]
    ELSE d

inner_grow(inner, relocate) ==
    IF inner.size >= MaxAtlasSize THEN <<inner, FALSE>>
    ELSE LET new_size == GrownSize(inner.size)
             shift == IF relocate THEN new_size - inner.size ELSE 0
         IN  <<[size |-> new_size,
                allocations |-> {[r EXCEPT !.x = @ + shift] : r \in inner.allocations},
                next_id |-> inner.next_id,
                glyph_cache |-> [k \in DOMAIN inner.glyph_cache |->
                                    RelocateDetails(inner.glyph_cache[k], shift)]],
               TRUE>>

\* atlas.grow(.., content_type, ..): returns <<atlas', did_grow>>
grow(a, content_type, relocate) ==
    LET g == inner_grow(inner_for_content(a, content_type), relocate) IN
    <<with_inner(a, content_type, g[1]), g[2]>>

---------------------------------------------------------------------------
(* The rasterization collaborators *)

Image(content_type, left, top, width, height) ==
    [content_type |-> content_type, left |-> left, top |-> top,
     width |-> width, height |-> height]

\* A bitmap that no atlas can ever hold
OversizedDim == MaxAtlasSize + 1

\* cache.get_image_uncached(font_system, cache_key) for the glyphs of the
\* model's font: id 1, 2 coverage masks, 3 a colour bitmap, 4 an empty
\* (zero-width) bitmap, 5 no image at all, 6 a mask wider than any atlas,
\* 7 a second colour bitmap.
SwashImage(id) ==
    CASE id = 1 -> Some(Image("Mask", 0, 0, 1, 1))
      [] id = 2 -> Some(Image("Mask", -1, 1, 2, 2))
      [] id = 3 -> Some(Image("Color", 1, 0, 1, 2))
      [] id = 4 -> Some(Image("Mask", 0, 0, 0, 1))
      [] id = 5 -> None
      [] id = 7 -> Some(Image("Color", 0, 0, 1, 1))
      [] OTHER  -> Some(Image("Mask", 0, 0, OversizedDim, 1))

\* The caller's rasterize_custom_glyph callback: "None" is |_| None, the
\* other two return a bitmap of that content type for every request.
Rasterizers == {"None", "Mask", "Color"}

rasterize_custom_glyph(rasterizer, key) ==
    IF rasterizer = "None" THEN None ELSE Some([content_type |-> rasterizer])

\* The closure passed for an ordinary glyph (lines 358-382)
TextGlyphImage(key) == SwashImage(key.id)

\* The closure passed for a custom glyph (lines 293-319)
CustomGlyphImage(key, rasterizer) ==
    IF key.width = 0 \/ key.height = 0 THEN None
    ELSE LET output == rasterize_custom_glyph(rasterizer, key) IN
         IF ~IsSome(output) THEN None
         ELSE Some(Image(Unwrap(output).content_type, 0, 0, key.width, key.height))

get_glyph_image(key, rasterizer) ==
    IF key.kind = "Custom" THEN CustomGlyphImage(key, rasterizer)
                           ELSE TextGlyphImage(key)

\* does the closure reach the caller's rasterize_custom_glyph callback
InvokesCustomRasterizer(key) ==
    key.kind = "Custom" /\ key.width # 0 /\ key.height # 0

\* metadata_to_depth: zero_depth, or a caller's mapping (here the identity)
\* (a depth taken from the metadata)
metadata_depth(metadata) == metadata

zero_depth(metadata) == 0

metadata_to_depth(mapping, metadata) ==
    IF mapping = "zero" THEN zero_depth(metadata) ELSE metadata

---------------------------------------------------------------------------
(* prepare_glyph *)

Event(op, key, ok, x, y) == [op |-> op, key |-> key, ok |-> ok, x |-> x, y |-> y]

Log(ctx, op, key, ok, x, y) ==
    [ctx EXCEPT !.events = Append(@, Event(op, key, ok, x, y))]

\* (a lookup that forgets the colour store)
LookupMaskOnly(a, key) ==
    IF key \in DOMAIN a.mask_atlas.glyph_cache
    THEN Some(a.mask_atlas.glyph_cache[key])
    ELSE None

\* (a lookup that forgets the mask store)
LookupColorOnly(a, key) ==
    IF key \in DOMAIN a.color_atlas.glyph_cache
    THEN Some(a.color_atlas.glyph_cache[key])
    ELSE None

\* lookup: the mask store first, the colour store second (lines 511-514)
LookupDetails(a, key) ==
    IF key \in DOMAIN a.mask_atlas.glyph_cache
    THEN Some(a.mask_atlas.glyph_cache[key])
    ELSE IF key \in DOMAIN a.color_atlas.glyph_cache
    THEN Some(a.color_atlas.glyph_cache[key])
    ELSE None

\* glyph_cache.entry(key).or_insert(details)
or_insert(cache, key, details) ==
    IF key \in DOMAIN cache THEN cache ELSE (key :> details) @@ cache

\* (a loop that gives up after one growth)
AllocateNoRetry(ctx, key, image, relocate) ==
    LET Retried(c2, t) ==
            [ctx |-> Log([c2 EXCEPT !.atlas = with_inner(@, image.content_type, t[1])],
                         "try_allocate", key, IsSome(t[2]), image.width, image.height),
             allocation |-> t[2]]
        Grown(c2, grew) ==
            IF ~grew THEN [ctx |-> c2, allocation |-> None]
            ELSE Retried(c2, try_allocate(inner_for_content(c2.atlas, image.content_type),
                                          image.width, image.height))
        Grow(c1, g) ==
            Grown(Log([c1 EXCEPT !.atlas = g[1]], "grow", key, g[2],
                      inner_for_content(g[1], image.content_type).size, 0),
                  g[2])
        Tried(c1, allocation) ==
            IF IsSome(allocation) THEN [ctx |-> c1, allocation |-> allocation]
            ELSE Grow(c1, grow(c1.atlas, image.content_type, relocate))
        Try(t) ==
            Tried(Log([ctx EXCEPT !.atlas = with_inner(@, image.content_type, t[1])],
                      "try_allocate", key, IsSome(t[2]), image.width, image.height),
                  t[2])
    IN  Try(try_allocate(inner_for_content(ctx.atlas, image.content_type),
                         image.width, image.height))

\* The loop of lines 526-545.  Returns the context and Some(allocation), or
\* None when atlas.grow returned false.
RECURSIVE AllocateLoop(_, _, _, _)
AllocateLoop(ctx, key, image, relocate) ==
    LET Grown(c2, grew) ==
            IF ~grew THEN [ctx |-> c2, allocation |-> None]
            ELSE AllocateLoop(c2, key, image, relocate)
        Grow(c1, g) ==
            Grown(Log([c1 EXCEPT !.atlas = g[1]], "grow", key, g[2],
                      inner_for_content(g[1], image.content_type).size, 0),
                  g[2])
        Tried(c1, allocation) ==
            IF IsSome(allocation) THEN [ctx |-> c1, allocation |-> allocation]
            ELSE Grow(c1, grow(c1.atlas, image.content_type, relocate))
        Try(t) ==
            Tried(Log([ctx EXCEPT !.atlas = with_inner(@, image.content_type, t[1])],
                      "try_allocate", key, IsSome(t[2]), image.width, image.height),
                  t[2])
    IN  Try(try_allocate(inner_for_content(ctx.atlas, image.content_type),
                         image.width, image.height))

\* (an exhaustion that caches the failing key as skipped)
AtlasFullCachesSkip(ctx, key) ==
    [ctx |-> [ctx EXCEPT !.atlas.color_atlas.glyph_cache =
                 (key :> [width |-> 0, height |-> 0, gpu_cache |-> SkipRasterization,
                          atlas_id |-> None, top |-> 0, left |-> 0]) @@ @],
     status |-> "AtlasFull", details |-> None]

\* return Err(PrepareError::AtlasFull) (line 539): nothing is cached
AtlasFull(ctx, key) == [ctx |-> ctx, status |-> "AtlasFull", details |-> None]

Details(image, gpu_cache, atlas_id) ==
    [width |-> image.width, height |-> image.height, gpu_cache |-> gpu_cache,
     atlas_id |-> atlas_id, top |-> image.top, left |-> image.left]

\* Resolution of the details of a key (lines 511-594).  Returns
\* [ctx, status, details]: status "Ok" with Some(details), "NoImage" for the
\* early Ok(None) of line 517, "AtlasFull" for the Err of line 539.
ResolveDetails(ctx, key, rasterizer, relocate) ==
    LET hit == LookupDetails(ctx.atlas, key) IN
    IF IsSome(hit)
    THEN [ctx |-> Log(ctx, "hit", key, Unwrap(hit).gpu_cache.tag = "InAtlas",
                      Unwrap(hit).gpu_cache.x, Unwrap(hit).gpu_cache.y),
          status |-> "Ok", details |-> hit]
    ELSE
    LET c0 == Log(ctx, "get_glyph_image", key, IsSome(get_glyph_image(key, rasterizer)), 0, 0)
        c1 == IF InvokesCustomRasterizer(key)
              THEN Log(c0, "rasterize_custom_glyph", key,
                       IsSome(rasterize_custom_glyph(rasterizer, key)), 0, 0)
              ELSE c0
        got == get_glyph_image(key, rasterizer)
    IN  IF ~IsSome(got) THEN [ctx |-> c1, status |-> "NoImage", details |-> None]
        ELSE
        LET image == Unwrap(got)
            should_rasterize == image.width > 0 /\ image.height > 0
        IN  IF should_rasterize
            THEN LET Allocated(l) ==
                     IF ~IsSome(l.allocation)
                     THEN AtlasFull(l.ctx, key)
                     ELSE LET a  == Unwrap(l.allocation)
                              c2 == Log(l.ctx, "write_texture", key, TRUE, a.x, a.y)
                              d  == Details(image,
                                            InAtlas(AsU16(a.x), AsU16(a.y),
                                                    image.content_type),
                                            Some(a.id))
                              inner == inner_for_content(c2.atlas, image.content_type)
                              cache == or_insert(inner.glyph_cache, key, d)
                              c3 == [c2 EXCEPT !.atlas = with_inner(@, image.content_type,
                                                  [inner EXCEPT !.glyph_cache = cache])]
                          IN  [ctx |-> Log(c3, "insert", key, TRUE,
                                           d.gpu_cache.x, d.gpu_cache.y),
                               status |-> "Ok", details |-> Some(cache[key])]
                 IN  Allocated(AllocateLoop(c1, key, image, relocate))
            ELSE LET d == Details(image, SkipRasterization, None)
                     cache == or_insert(c1.atlas.color_atlas.glyph_cache, key, d)
                     c3 == [c1 EXCEPT !.atlas.color_atlas.glyph_cache = cache]
                 IN  [ctx |-> Log(c3, "insert", key, FALSE, 0, 0),
                      status |-> "Ok", details |-> Some(cache[key])]

\* TextColorConversion as u16
ConvertToLinear == 1
NoConversion == 0

Vertex(x, y, width, height, atlas_x, atlas_y, color, content_type, conversion, depth) ==
    [pos |-> <<x, y>>, dim |-> <<AsU16(width), AsU16(height)>>,
     uv |-> <<atlas_x, atlas_y>>, color |-> color,
     content_type_with_srgb |-> <<content_type, conversion>>, depth |-> depth]

\* (a clipping that leaves the atlas origin where it is)
ClipGlyphKeepsOrigin(details, g, b, color_mode, mapping) ==
    LET x0 == g.x + details.left
        y0 == g.line_y + g.y - details.top
        width0 == details.width
        height0 == details.height
        max_x == x0 + width0
        max_y == y0 + height0
    IN
    IF details.gpu_cache.tag = "SkipRasterization" THEN None
    ELSE IF x0 > b.max_x \/ max_x < b.min_x THEN None
    ELSE IF y0 > b.max_y \/ max_y < b.min_y THEN None
    ELSE
    LET clip_left == x0 < b.min_x
        x1 == IF clip_left THEN b.min_x ELSE x0
        width1 == IF clip_left THEN max_x - b.min_x ELSE width0
        atlas_x == details.gpu_cache.x
        width2 == IF x1 + width1 > b.max_x THEN b.max_x - x1 ELSE width1
        clip_top == y0 < b.min_y
        y1 == IF clip_top THEN b.min_y ELSE y0
        height1 == IF clip_top THEN max_y - b.min_y ELSE height0
        atlas_y == details.gpu_cache.y
        height2 == IF y1 + height1 > b.max_y THEN b.max_y - y1 ELSE height1
    IN  Some(Vertex(x1, y1, width2, height2, atlas_x, atlas_y, g.color,
                    details.gpu_cache.content_type,
                    IF color_mode = "Accurate" THEN ConvertToLinear ELSE NoConversion,
                    metadata_to_depth(mapping, g.metadata)))

\* Placement and clipping of a glyph whose details are known (lines 596-662).
\* g: [x, y, line_y, color, metadata]; b: [min_x, min_y, max_x, max_y].
\* Returns Option<GlyphToRender>.
ClipGlyph(details, g, b, color_mode, mapping) ==
    LET x0 == g.x + details.left
        y0 == g.line_y + g.y - details.top
        width0 == details.width
        height0 == details.height
        max_x == x0 + width0
        max_y == y0 + height0
    IN
    IF details.gpu_cache.tag = "SkipRasterization" THEN None
    ELSE IF x0 > b.max_x \/ max_x < b.min_x THEN None
    ELSE IF y0 > b.max_y \/ max_y < b.min_y THEN None
    ELSE
    LET clip_left == x0 < b.min_x
        x1 == IF clip_left THEN b.min_x ELSE x0
        width1 == IF clip_left THEN max_x - b.min_x ELSE width0
        atlas_x == IF clip_left
                   THEN AsU16(details.gpu_cache.x + AsU16(b.min_x - x0))
                   ELSE details.gpu_cache.x
        width2 == IF x1 + width1 > b.max_x THEN b.max_x - x1 ELSE width1
        clip_top == y0 < b.min_y
        y1 == IF clip_top THEN b.min_y ELSE y0
        height1 == IF clip_top THEN max_y - b.min_y ELSE height0
        atlas_y == IF clip_top
                   THEN AsU16(details.gpu_cache.y + AsU16(b.min_y - y0))
                   ELSE details.gpu_cache.y
        height2 == IF y1 + height1 > b.max_y THEN b.max_y - y1 ELSE height1
    IN  Some(Vertex(x1, y1, width2, height2, atlas_x, atlas_y, g.color,
                    details.gpu_cache.content_type,
                    IF color_mode = "Accurate" THEN ConvertToLinear ELSE NoConversion,
                    metadata_to_depth(mapping, g.metadata)))

\* prepare_glyph (lines 483-663).  Returns [ctx, err, out]: err is TRUE for
\* Err(AtlasFull); otherwise out is the Option<GlyphToRender> of the Ok.
prepare_glyph(ctx, key, g, b, rasterizer, mapping, relocate) ==
    LET Return(c, out) ==
            [ctx |-> Log(c, "return", key, IsSome(out), 0, 0), err |-> FALSE, out |-> out]
        Resolved(r) ==
            CASE r.status = "AtlasFull" -> [ctx |-> r.ctx, err |-> TRUE, out |-> None]
              [] r.status = "NoImage"   -> Return(r.ctx, None)
              [] OTHER ->
                    Return(r.ctx, ClipGlyph(Unwrap(r.details), g, b,
                                            r.ctx.atlas.color_mode, mapping))
    IN  Resolved(ResolveDetails(Log(ctx, "prepare_glyph", key, TRUE, g.x, g.y),
                                key, rasterizer, relocate))

---------------------------------------------------------------------------
(* prepare_text_areas_with_depth_and_custom *)

\* the clip bounds of a text area, clamped to the viewport (lines 231-240)
ClampedBounds(text_area) ==
    [min_x |-> Max(text_area.bounds.left, 0),
     min_y |-> Max(text_area.bounds.top, 0),
     max_x |-> Min(text_area.bounds.right, ViewportWidth),
     max_y |-> Min(text_area.bounds.bottom, ViewportHeight)]

\* (a placement that forgets the glyph's own offset in the line)
physical_glyph_at_origin(glyph, text_area) ==
    [cache_key |-> TextKey(glyph.id),
     x |-> text_area.left,
     y |-> text_area.top]

\* physical_glyph (lines 410-437), whole pixels at scale 1
physical_glyph(glyph, text_area) ==
    [cache_key |-> TextKey(glyph.id),
     x |-> glyph.x + text_area.left,
     y |-> glyph.y + text_area.top]

\* (a push at the front)
PushFront(acc, out) == IF IsSome(out) THEN <<Unwrap(out)>> \o acc ELSE acc

Push(acc, out) == IF IsSome(out) THEN Append(acc, Unwrap(out)) ELSE acc

\* (an Err that is dropped: the glyph is skipped and the call goes on)
IsErrIgnored(r) == FALSE

\* the `?` after prepare_glyph(..) (lines 322 and 385): an Err leaves the call
IsErr(r) == r.err

\* the loop over text_area.custom_glyphs (lines 244-325)
RECURSIVE CustomGlyphsLoop(_, _, _, _, _)
CustomGlyphsLoop(ctx, text_area, env, i, acc) ==
    IF i > Len(text_area.custom_glyphs) THEN [ctx |-> ctx, err |-> FALSE, out |-> acc]
    ELSE LET glyph == text_area.custom_glyphs[i]
             key == CustomKey(glyph.id, AsU16(glyph.width), AsU16(glyph.height))
             g == [x |-> text_area.left + glyph.left,
                   y |-> text_area.top + glyph.top,
                   line_y |-> 0,
                   color |-> IF IsSome(glyph.color) THEN Unwrap(glyph.color)
                                                    ELSE text_area.default_color,
                   metadata |-> glyph.metadata]
             GlyphDone(r) ==
                 IF IsErr(r) THEN [ctx |-> r.ctx, err |-> TRUE, out |-> acc]
                 ELSE CustomGlyphsLoop(r.ctx, text_area, env, i + 1, Push(acc, r.out))
         IN  GlyphDone(prepare_glyph(ctx, key, g, ClampedBounds(text_area),
                                     env.rasterizer, env.mapping, env.relocate))

\* the loop over run.glyphs (lines 333-388)
RECURSIVE RunGlyphsLoop(_, _, _, _, _, _)
RunGlyphsLoop(ctx, text_area, run, env, i, acc) ==
    IF i > Len(run.glyphs) THEN [ctx |-> ctx, err |-> FALSE, out |-> acc]
    ELSE LET glyph == run.glyphs[i]
             physical == physical_glyph(glyph, text_area)
             g == [x |-> physical.x, y |-> physical.y, line_y |-> run.line_y,
                   color |-> IF IsSome(glyph.color_opt) THEN Unwrap(glyph.color_opt)
                                                        ELSE text_area.default_color,
                   metadata |-> glyph.metadata]
             GlyphDone(r) ==
                 IF IsErr(r) THEN [ctx |-> r.ctx, err |-> TRUE, out |-> acc]
                 ELSE RunGlyphsLoop(r.ctx, text_area, run, env, i + 1, Push(acc, r.out))
         IN  GlyphDone(prepare_glyph(ctx, physical.cache_key, g, ClampedBounds(text_area),
                                     env.rasterizer, env.mapping, env.relocate))

LayoutGlyphs(text_area, run, glyphs) ==
    [bounds |-> [top |-> text_area.top + run.line_top,
                 left |-> text_area.left,
                 right |-> text_area.left + run.line_w,
                 bottom |-> text_area.top + run.line_top + run.line_height],
     glyphs |-> glyphs]

\* the loop over the layout runs (lines 331-399)
RECURSIVE RunsLoop(_, _, _, _, _)
RunsLoop(ctx, text_area, env, i, acc) ==
    IF i > Len(text_area.runs) THEN [ctx |-> ctx, err |-> FALSE, out |-> acc]
    ELSE LET run == text_area.runs[i]
             RunDone(r) ==
                 IF r.err THEN [ctx |-> r.ctx, err |-> TRUE, out |-> acc]
                 ELSE RunsLoop(r.ctx, text_area, env, i + 1,
                               Append(acc, LayoutGlyphs(text_area, run, r.out)))
         IN  RunDone(RunGlyphsLoop(ctx, text_area, run, env, 1, <<>>))

RenderableTextArea(layout_glyphs, custom_glyphs) ==
    [layout_glyphs |-> layout_glyphs, custom_glyphs |-> custom_glyphs]

\* the loop over the text areas (lines 230-405)
RECURSIVE TextAreasLoop(_, _, _, _, _)
TextAreasLoop(ctx, text_areas, env, i, acc) ==
    IF i > Len(text_areas) THEN [ctx |-> ctx, err |-> FALSE, out |-> acc]
    ELSE LET text_area == text_areas[i]
             RunsDone(l, custom_glyph_vertices) ==
                 IF l.err THEN [ctx |-> l.ctx, err |-> TRUE, out |-> acc]
                 ELSE TextAreasLoop(l.ctx, text_areas, env, i + 1,
                                    Append(acc, RenderableTextArea(l.out,
                                                                   custom_glyph_vertices)))
             CustomsDone(c) ==
                 IF c.err THEN [ctx |-> c.ctx, err |-> TRUE, out |-> acc]
                 ELSE RunsDone(RunsLoop(c.ctx, text_area, env, 1, <<>>), c.out)
         IN  CustomsDone(CustomGlyphsLoop(ctx, text_area, env, 1, <<>>))

\* Result<Vec<RenderableTextArea>, PrepareError>
Ok(areas) == [ok |-> TRUE, areas |-> areas]
ErrAtlasFull == [ok |-> FALSE, areas |-> <<>>]

\* prepare_text_areas_with_depth_and_custom (lines 214-408): returns the
\* atlas after the call, the calls made to the collaborators, the result.
prepare_text_areas_with_depth_and_custom(a, text_areas, mapping, rasterizer, relocate) ==
    LET env == [rasterizer |-> rasterizer, mapping |-> mapping, relocate |-> relocate]
        Return(r) ==
            [atlas |-> r.ctx.atlas, events |-> r.ctx.events,
             result |-> IF r.err THEN ErrAtlasFull ELSE Ok(r.out)]
    IN  Return(TextAreasLoop([atlas |-> a, events |-> <<>>], text_areas, env, 1, <<>>))

\* prepare_text_areas (lines 118-145)
prepare_text_areas(a, text_areas, relocate) ==
    prepare_text_areas_with_depth_and_custom(a, text_areas, "zero", "None", relocate)

---------------------------------------------------------------------------
(* The vertex buffer manager and render *)

\* the flat_map of lines 155-169
AreaVertices(renderable_text_area) ==
    FlattenSeqs([i \in 1..Len(renderable_text_area.layout_glyphs) |->
                    renderable_text_area.layout_glyphs[i].glyphs
                        \o renderable_text_area.custom_glyphs])

glyph_vertices(renderable_text_areas) ==
    FlattenSeqs([i \in 1..Len(renderable_text_areas) |->
                    AreaVertices(renderable_text_areas[i])])

\* std::mem::size_of_val(vertices)
size_of_val(vertices) == Len(vertices) * GlyphToRenderSize

\* device.create_buffer: a buffer of `size` bytes holding `data`
Buffer(size, data) == [size |-> size, data |-> data, destroyed |-> FALSE]

\* queue.write_buffer(buffer, 0, vertices_raw): the tail beyond the written
\* region keeps what it held
write_buffer(buffer, vertices) ==
    [buffer EXCEPT !.data = vertices \o SubSeq(@, Len(vertices) + 1, Len(@))]

\* buffer.destroy(): the memory is released
destroy(buffer) == [buffer EXCEPT !.destroyed = TRUE, !.data = <<>>]

\* create_oversized_buffer (lines 452-468)
create_oversized_buffer(contents) ==
    LET size == next_copy_buffer_size(size_of_val(contents)) IN
    <<Buffer(size, contents), size>>

\* (the capacity in bytes compared with the number of vertices)
FitsByCount(size, len) == size >= len \div GlyphToRenderSize

\* (the test of line 182 turned around)
FitsInverted(size, len) == size <= len

\* the test of line 182
Fits(size, len) == size >= len

\* (a recreation that keeps the handle of the destroyed buffer)
RecreateKeepsHandle(r, vertices) ==
    LET created == create_oversized_buffer(vertices) IN
    [buffers |-> Append([r.buffers EXCEPT ![r.vertex_buffer] = destroy(@)], created[1]),
     vertex_buffer |-> r.vertex_buffer,
     vertex_buffer_size |-> created[2],
     glyph_vertices_len |-> Len(vertices),
     call |-> [op |-> "create_buffer", buffer |-> Len(r.buffers) + 1,
               was_destroyed |-> FALSE,
               offset |-> 0, len |-> size_of_val(vertices), destroyed |-> r.vertex_buffer]]

\* the else branch of lines 185-195: destroy, create, take the new buffer
Recreate(r, vertices) ==
    LET created == create_oversized_buffer(vertices) IN
    [buffers |-> Append([r.buffers EXCEPT ![r.vertex_buffer] = destroy(@)], created[1]),
     vertex_buffer |-> Len(r.buffers) + 1,
     vertex_buffer_size |-> created[2],
     glyph_vertices_len |-> Len(vertices),
     call |-> [op |-> "create_buffer", buffer |-> Len(r.buffers) + 1,
               was_destroyed |-> FALSE,
               offset |-> 0, len |-> size_of_val(vertices), destroyed |-> r.vertex_buffer]]

\* prepare_renderable_text_areas (lines 147-197) on the renderer's fields r:
\* returns the fields after the call and the device/queue call it made.
prepare_renderable_text_areas(r, renderable_text_areas) ==
    LET vertices == glyph_vertices(renderable_text_areas)
        len == size_of_val(vertices)
    IN  IF Fits(r.vertex_buffer_size, len)
        THEN [buffers |-> [r.buffers EXCEPT ![r.vertex_buffer] = write_buffer(@, vertices)],
              vertex_buffer |-> r.vertex_buffer,
              vertex_buffer_size |-> r.vertex_buffer_size,
              glyph_vertices_len |-> Len(vertices),
              call |-> [op |-> "write_buffer", buffer |-> r.vertex_buffer,
                        was_destroyed |-> r.buffers[r.vertex_buffer].destroyed,
                        offset |-> 0, len |-> len, destroyed |-> 0]]
        ELSE Recreate(r, vertices)

\* (a draw over the capacity of the buffer)
render_capacity(r) ==
    [vertex_buffer |-> r.vertex_buffer,
     bound_destroyed |-> r.buffers[r.vertex_buffer].destroyed,
     draws |-> <<[vertices |-> <<0, 4>>,
                  instances |-> <<0, r.vertex_buffer_size \div GlyphToRenderSize>>]>>,
     result |-> "Ok"]

\* render (lines 199-212): what the pass records, and the result
render(r) ==
    [vertex_buffer |-> r.vertex_buffer,
     bound_destroyed |-> r.buffers[r.vertex_buffer].destroyed,
     draws |-> <<[vertices |-> <<0, 4>>, instances |-> <<0, r.glyph_vertices_len>>]>>,
     result |-> "Ok"]

Renderer ==
    [buffers |-> buffers, vertex_buffer |-> vertex_buffer,
     vertex_buffer_size |-> vertex_buffer_size,
     glyph_vertices_len |-> glyph_vertices_len]

---------------------------------------------------------------------------
(* Inputs *)

Bounds(left, top, right, bottom) ==
    [left |-> left, top |-> top, right |-> right, bottom |-> bottom]

LayoutGlyph(id, x, y) ==
    [id |-> id, x |-> x, y |-> y, color_opt |-> None, metadata |-> id]

\* a run whose glyphs have the given ids, one pixel apart
Run(ids) ==
    [line_y |-> 1, line_top |-> 0, line_w |-> Len(ids), line_height |-> 2,
     glyphs |-> [i \in 1..Len(ids) |-> LayoutGlyph(ids[i], i - 1, 0)]]

CustomGlyph(id, width, height) ==
    [id |-> id, left |-> 0, top |-> 0, width |-> width, height |-> height,
     color |-> Some(7), metadata |-> 2]

TextArea(bounds, custom_glyphs, runs) ==
    [left |-> 0, top |-> 0, bounds |-> bounds, default_color |-> 0,
     custom_glyphs |-> custom_glyphs, runs |-> runs]

FullBounds == Bounds(0, 0, ViewportWidth, ViewportHeight)
WideBounds == Bounds(-1, -1, ViewportWidth + 2, ViewportHeight + 2)
InnerBounds == Bounds(1, 1, ViewportWidth - 1, ViewportHeight - 1)

\* the iterators of ordinary text areas handed to a preparation call: the
\* same key twice, a growth between two uses of a key, an empty and a missing
\* image, a bitmap no atlas can hold, an atlas filled by earlier glyphs, a
\* failure in a second area, clipped glyphs on two lines
PlainInputs ==
    {<<TextArea(FullBounds, <<>>, <<Run(ids)>>)>> :
        ids \in {<<1, 1>>, <<1, 2, 1>>, <<4, 5, 4>>, <<1, 6, 3>>, <<2, 3, 1>>, <<3>>}}
    \cup {<<TextArea(FullBounds, <<>>, <<Run(<<1>>)>>),
            TextArea(FullBounds, <<>>, <<Run(<<3, 6, 2>>)>>)>>,
          <<TextArea(InnerBounds, <<>>, <<Run(<<1, 3>>), Run(<<3>>)>>)>>}

\* text areas with custom glyphs: no line, or two lines
CustomInputs ==
    {<<TextArea(WideBounds, <<CustomGlyph(1, 1, 1)>>, <<>>)>>,
     <<TextArea(FullBounds, <<CustomGlyph(1, 1, 1)>>, <<Run(<<1>>), Run(<<3>>)>>)>>,
     <<TextArea(FullBounds, <<CustomGlyph(1, 0, 1)>>, <<Run(<<1>>)>>)>>,
     <<TextArea(FullBounds, <<CustomGlyph(1, 1, 1)>>, <<Run(<<1>>)>>),
       TextArea(FullBounds, <<CustomGlyph(2, OversizedDim, 1), CustomGlyph(1, 2, 1)>>,
                <<Run(<<3>>)>>)>>}

TextAreaInputs == PlainInputs \cup CustomInputs

\* the inputs of the interleaved specification
FrameInputs ==
    {<<TextArea(FullBounds, <<>>, <<Run(<<1, 1>>)>>)>>,
     <<TextArea(FullBounds, <<>>, <<Run(<<3, 6, 1>>)>>)>>}

FrameCustomInputs ==
    {<<TextArea(FullBounds, <<CustomGlyph(1, 1, 1)>>, <<Run(<<1>>), Run(<<3>>)>>)>>}

\* renderable text areas handed to an assembly call
TestVertex(i) ==
    Vertex(i, 0, 1, 1, 0, 0, 0, "Mask", NoConversion, 0)

Batch(from, n) ==
    [bounds |-> FullBounds, glyphs |-> [i \in 1..n |-> TestVertex(from + i - 1)]]

CustomVertex(i) ==
    Vertex(i, 1, 1, 1, 0, 0, 7, "Color", NoConversion, 0)

\* the number of vertices that fill the initial buffer
FitCount == InitialBufferSize \div GlyphToRenderSize

RenderableInputs ==
    {<<>>,
     <<RenderableTextArea(<<Batch(1, 2)>>, <<>>)>>,
     <<RenderableTextArea(<<>>, <<CustomVertex(1)>>)>>,
     <<RenderableTextArea(<<Batch(1, 1)>>, <<CustomVertex(1)>>)>>,
     <<RenderableTextArea(<<Batch(1, 1), Batch(2, 1)>>, <<CustomVertex(1)>>)>>,
     <<RenderableTextArea(<<Batch(1, 1), Batch(2, 0)>>, <<>>),
       RenderableTextArea(<<Batch(3, 2)>>, <<>>)>>,
     <<RenderableTextArea(<<Batch(1, FitCount)>>, <<>>)>>,
     <<RenderableTextArea(<<Batch(1, FitCount + 1)>>, <<>>)>>,
     <<RenderableTextArea(<<Batch(1, FitCount)>>, <<>>),
       RenderableTextArea(<<Batch(1, FitCount + 1)>>, <<>>)>>}

FrameRenderables ==
    {<<RenderableTextArea(<<Batch(1, FitCount + 1)>>, <<>>)>>}

---------------------------------------------------------------------------
(* The state machine *)

EventKeys(events, op) == {events[i].key : i \in {j \in 1..Len(events) : events[j].op = op}}

NoPrep ==
    [entry |-> "none", text_areas |-> <<>>, mapping |-> "zero", rasterizer |-> "None",
     events |-> <<>>, result |-> ErrAtlasFull]

NoAsm ==
    [areas |-> <<>>,
     call |-> [op |-> "none", buffer |-> 0, was_destroyed |-> FALSE,
               offset |-> 0, len |-> 0, destroyed |-> 0]]

NoPass ==
    [after |-> "none", vertex_buffer |-> 0, bound_destroyed |-> FALSE, draws |-> <<>>,
     result |-> "none"]

\* TextRenderer2::new (lines 92-116) on a fresh atlas
Init ==
    /\ atlas \in {NewAtlas(color_mode) : color_mode \in {"Accurate", "Web"}}
    /\ buffers = <<Buffer(next_copy_buffer_size(InitialBufferSize), <<>>)>>
    /\ vertex_buffer = 1
    /\ vertex_buffer_size = next_copy_buffer_size(InitialBufferSize)
    /\ glyph_vertices_len = 0
    /\ last_op = "new"
    /\ prep = NoPrep
    /\ asm = NoAsm
    /\ pass = NoPass

\* (a preparation that forgets the assembled stream when it fails)
PreparedClearsStream(entry, text_areas, mapping, rasterizer, r) ==
    /\ atlas' = r.atlas
    /\ prep' = [entry |-> entry, text_areas |-> text_areas, mapping |-> mapping,
                rasterizer |-> rasterizer, events |-> r.events, result |-> r.result]
    /\ last_op' = "prepare"
    /\ glyph_vertices_len' = IF r.result.ok THEN glyph_vertices_len ELSE 0
    /\ UNCHANGED <<buffers, vertex_buffer, vertex_buffer_size, asm, pass>>

Prepared(entry, text_areas, mapping, rasterizer, r) ==
    /\ atlas' = r.atlas
    /\ prep' = [entry |-> entry, text_areas |-> text_areas, mapping |-> mapping,
                rasterizer |-> rasterizer, events |-> r.events, result |-> r.result]
    /\ last_op' = "prepare"
    /\ UNCHANGED <<buffers, vertex_buffer, vertex_buffer_size, glyph_vertices_len,
                   asm, pass>>

\* a call of the public prepare_text_areas
PrepareTextAreasOf(text_areas) ==
    \E relocate \in BOOLEAN :
        Prepared("prepare_text_areas", text_areas, "zero", "None",
                 prepare_text_areas(atlas, text_areas, relocate))

PrepareTextAreas == \E text_areas \in TextAreaInputs : PrepareTextAreasOf(text_areas)

\* a call of prepare_text_areas_with_depth_and_custom with a caller's depth
\* mapping and custom-glyph rasterizer
PrepareWithDepthAndCustomOf(text_areas) ==
    \E rasterizer \in Rasterizers \ {"None"}, relocate \in BOOLEAN :
        Prepared("with_depth_and_custom", text_areas, "metadata", rasterizer,
                 prepare_text_areas_with_depth_and_custom(
                     atlas, text_areas, "metadata", rasterizer, relocate))

PrepareWithDepthAndCustom ==
    \E text_areas \in CustomInputs : PrepareWithDepthAndCustomOf(text_areas)

Assembled(areas, r) ==
    /\ buffers' = r.buffers
    /\ vertex_buffer' = r.vertex_buffer
    /\ vertex_buffer_size' = r.vertex_buffer_size
    /\ glyph_vertices_len' = r.glyph_vertices_len
    /\ asm' = [areas |-> areas, call |-> r.call]
    /\ last_op' = "assemble"
    /\ UNCHANGED <<atlas, prep, pass>>

\* a call of prepare_renderable_text_areas with the areas the last
\* preparation returned
AssemblePrepared ==
    /\ prep.entry # "none"
    /\ prep.result.ok
    /\ Assembled(prep.result.areas,
                 prepare_renderable_text_areas(Renderer, prep.result.areas))

\* a call of prepare_renderable_text_areas with any slice of areas
AssembleOf(areas) ==
    Assembled(areas, prepare_renderable_text_areas(Renderer, areas))

Assemble == \E areas \in RenderableInputs : AssembleOf(areas)

\* a call of render
Render ==
    /\ LET r == render(Renderer) IN
          pass' = [after |-> last_op, vertex_buffer |-> r.vertex_buffer,
                   bound_destroyed |-> r.bound_destroyed, draws |-> r.draws,
                   result |-> r.result]
    /\ last_op' = "render"
    /\ UNCHANGED <<atlas, buffers, vertex_buffer, vertex_buffer_size,
                   glyph_vertices_len, prep, asm>>

\* preparation calls alone, on one atlas
NextPrepare == PrepareTextAreas \/ PrepareWithDepthAndCustom

SpecPrepare == Init /\ [][NextPrepare]_vars

\* assembly and render calls alone
NextBuffer == Assemble \/ Render

SpecBuffer == Init /\ [][NextBuffer]_vars

\* frames: preparation, assembly and render calls in any order
FramePrepare == \E text_areas \in FrameInputs : PrepareTextAreasOf(text_areas)

FramePrepareCustom == \E text_areas \in FrameCustomInputs : PrepareWithDepthAndCustomOf(text_areas)

FrameAssemble == \E areas \in FrameRenderables : AssembleOf(areas)

Next ==
    \/ FramePrepare
    \/ FramePrepareCustom
    \/ AssemblePrepared
    \/ FrameAssemble
    \/ Render

Spec == Init /\ [][Next]_vars

\* one preparation call on a fresh atlas: a text area with one glyph at any
\* position around its bounds, after no or one custom glyph (which takes the
\* first place of its atlas)
ProbeRun(id, x, y) ==
    [line_y |-> 1, line_top |-> 0, line_w |-> 1, line_height |-> 2,
     glyphs |-> <<LayoutGlyph(id, x, y)>>]

EmptyBounds == Bounds(0, 0, 0, ViewportHeight)
CellBounds == Bounds(2, 2, 3, 3)

\* bounds wholly outside the viewport, beyond its right and its bottom edge
RightOfViewport == Bounds(ViewportWidth + 1, 0, ViewportWidth + 2, ViewportHeight)
BelowViewport == Bounds(0, ViewportHeight + 1, ViewportWidth, ViewportHeight + 2)
ClipBounds ==
    {FullBounds, WideBounds, InnerBounds, EmptyBounds, CellBounds,
     RightOfViewport, BelowViewport}

ProbeInputs ==
    {<<TextArea(bounds, custom_glyphs, <<ProbeRun(id, x, y)>>)>> :
        bounds \in ClipBounds,
        custom_glyphs \in {<<>>, <<CustomGlyph(1, 1, 1)>>},
        id \in 1..3,
        x \in (-2)..(ViewportWidth + 1),
        y \in (-3)..ViewportHeight}

ProbePrepare ==
    /\ last_op = "new"
    /\ \E text_areas \in ProbeInputs : PrepareWithDepthAndCustomOf(text_areas)

NextProbe == ProbePrepare

SpecProbe == Init /\ [][NextProbe]_vars

\* one frame: a preparation of one line of up to MaxLine glyphs on a fresh
\* atlas, then assemblies of what it returned and renders
MaxLine == 3

Lines == UNION {[1..n -> {1, 2, 3, 4, 5, 7}] : n \in 0..MaxLine}

LineInputs == {<<TextArea(FullBounds, <<>>, <<Run(ids)>>)>> : ids \in Lines}

LinePrepare ==
    /\ last_op = "new"
    /\ \E text_areas \in LineInputs : PrepareTextAreasOf(text_areas)

\* the text areas of the preparation specification, and one line with a
\* custom glyph
LineCustomInputs ==
    TextAreaInputs
    \cup {<<TextArea(FullBounds, <<CustomGlyph(1, 1, 1)>>, <<Run(<<3>>)>>)>>}

\* the same with a caller's depth mapping and custom-glyph rasterizer
LinePrepareCustom ==
    /\ last_op = "new"
    /\ \E text_areas \in LineCustomInputs : PrepareWithDepthAndCustomOf(text_areas)

NextLine == LinePrepare \/ LinePrepareCustom \/ AssemblePrepared \/ Render

SpecLine == Init /\ [][NextLine]_vars

---------------------------------------------------------------------------
(* Reading the calls of a preparation *)

Indices(events, op) == {i \in 1..Len(events) : events[i].op = op}

KeyIndices(events, op, key) == {i \in Indices(events, op) : events[i].key = key}

\* a growth that succeeded strictly between positions i and j
GrowthBetween(events, i, j) ==
    \E m \in (i + 1)..(j - 1) : events[m].op = "grow" /\ events[m].ok

\* the preparation of a glyph started at position j was a cache hit on details
\* with this residency and atlas origin, and made no other call
HitAt(events, j, in_atlas, x, y) ==
    /\ j + 1 <= Len(events)
    /\ events[j + 1] = Event("hit", events[j].key, in_atlas, x, y)
    /\ j + 2 <= Len(events)
    /\ events[j + 2].op = "return"

\* the calls made for the glyph whose preparation started at position j
CallsOf(events, j) ==
    {m \in (j + 1)..Len(events) :
        \A n \in (j + 1)..m : events[n].op # "prepare_glyph"}

\* the entries an atlas holds for a key, in either store
Entries(a, key) ==
    {a.mask_atlas.glyph_cache[k] : k \in {key} \cap DOMAIN a.mask_atlas.glyph_cache}
    \cup {a.color_atlas.glyph_cache[k] : k \in {key} \cap DOMAIN a.color_atlas.glyph_cache}

CachedKeys(a) == DOMAIN a.mask_atlas.glyph_cache \cup DOMAIN a.color_atlas.glyph_cache

GlyphCount(text_areas) ==
    Len(FlattenSeqs([i \in 1..Len(text_areas) |->
            text_areas[i].custom_glyphs
            \o FlattenSeqs([r \in 1..Len(text_areas[i].runs) |->
                               text_areas[i].runs[r].glyphs])]))

---------------------------------------------------------------------------
(* C1 *)

\* One preparation call made the calls `events` on an atlas that was `a`
\* before it.  Every preparation of a key whose entry exists already (made by
\* an earlier glyph of the call, or cached before the call), with no growth
\* since, is a hit on that entry: same residency, same atlas x/y, no
\* rasterization, no try_allocate, no texture write.
IdempotentCall(a, events) ==
    \A j \in Indices(events, "prepare_glyph") :
        LET key == events[j].key
            made == {i \in KeyIndices(events, "insert", key) : i < j}
            before == Entries(a, key)
        IN  /\ \A i \in made :
                  ~GrowthBetween(events, i, j)
                      => /\ HitAt(events, j, events[i].ok, events[i].x, events[i].y)
                         /\ Cardinality({m \in KeyIndices(events, "try_allocate", key) :
                                            m <= j + 1 /\ events[m].ok})
                               = (IF events[i].ok THEN 1 ELSE 0)
                         /\ Cardinality({m \in KeyIndices(events, "write_texture", key) :
                                            m <= j + 1})
                               = (IF events[i].ok THEN 1 ELSE 0)
            /\ (made = {} /\ ~GrowthBetween(events, 0, j))
                  => \A d \in before :
                        HitAt(events, j, d.gpu_cache.tag = "InAtlas",
                              d.gpu_cache.x, d.gpu_cache.y)

\* C1: a second preparation of a cache key, with no atlas growth since the
\* first, finds the entry the first one created, uses its details with the
\* same atlas x/y, and makes no rasterization, allocation or upload: one
\* allocation and one upload for the key over both runs.
C1_CacheIdempotence == [][IdempotentCall(atlas, prep'.events)]_vars

\* a key is uploaded and cached by one glyph of a call and prepared again by
\* a later glyph of the call, with no growth between the two
C1_Witness ==
    \E i \in Indices(prep.events, "insert") :
        \E j \in KeyIndices(prep.events, "prepare_glyph", prep.events[i].key) :
            /\ i < j
            /\ prep.events[i].ok
            /\ ~GrowthBetween(prep.events, i, j)
            /\ HitAt(prep.events, j, TRUE, prep.events[i].x, prep.events[i].y)

---------------------------------------------------------------------------
(* C2 *)

\* C2: once the rasterization callback has returned no bitmap for a key, the
\* key is cached as SkipRasterization, and the callback is invoked at most
\* once for the key.
C2_NoBitmapCachedAsSkip ==
    \A i \in Indices(prep.events, "get_glyph_image") :
        ~prep.events[i].ok
            => /\ \E d \in Entries(atlas, prep.events[i].key) :
                     d.gpu_cache.tag = "SkipRasterization"
               /\ KeyIndices(prep.events, "get_glyph_image", prep.events[i].key) = {i}

---------------------------------------------------------------------------
(* C3 *)

\* the bitmap of the glyph has no area
ZeroArea(key) ==
    IF key.kind = "Custom" THEN key.width = 0 \/ key.height = 0
    ELSE /\ IsSome(SwashImage(key.id))
         /\ Unwrap(SwashImage(key.id)).width = 0 \/ Unwrap(SwashImage(key.id)).height = 0

\* the preparation started at position j of a glyph without area: no
\* allocation, no texture write, no vertex, and a skip entry in the cache `a`
\* left by the call
SkippedAt(a, events, j) ==
    /\ \A m \in CallsOf(events, j) : events[m].op \notin {"try_allocate", "write_texture"}
    /\ \E m \in CallsOf(events, j) : events[m].op = "return" /\ ~events[m].ok
    /\ \E d \in Entries(a, events[j].key) : d.gpu_cache.tag = "SkipRasterization"

\* C3: a glyph, ordinary or custom, whose bitmap has width 0 or height 0 is
\* not allocated, not uploaded, yields no vertex and is cached as
\* SkipRasterization.
C3_ZeroAreaCachedAsSkip ==
    \A j \in Indices(prep.events, "prepare_glyph") :
        ZeroArea(prep.events[j].key) => SkippedAt(atlas, prep.events, j)

\* the part of C3 that the code keeps: the ordinary glyphs
C3_OrdinaryZeroAreaCachedAsSkip ==
    \A j \in Indices(prep.events, "prepare_glyph") :
        (prep.events[j].key.kind = "Text" /\ ZeroArea(prep.events[j].key))
            => SkippedAt(atlas, prep.events, j)

---------------------------------------------------------------------------
(* C4 *)

Last(events) == events[Len(events)]

\* the call that made `events` ended in atlas.grow returning false
EndsInFailedGrow(events) ==
    /\ events # <<>>
    /\ Last(events).op = "grow"
    /\ ~Last(events).ok

\* d (cached before the failing glyph) and e (cached after the call) are the
\* same details, atlas x/y included or not
SameDetails(d, e, with_origin) ==
    IF with_origin THEN d = e
    ELSE /\ [d EXCEPT !.gpu_cache.x = 0, !.gpu_cache.y = 0]
                = [e EXCEPT !.gpu_cache.x = 0, !.gpu_cache.y = 0]

\* A call on atlas `a` made `events`, failed, and left atlas `b`: the failing
\* key is in neither store of b, and every entry cached before the failing
\* glyph (before the call, or by an earlier glyph of the call) is in the same
\* store of b with the same details.  origin(i) says whether the atlas x/y
\* of an entry that existed at position i of the call must be unchanged too.
ExhaustionKeeps(a, events, b, origin(_)) ==
    /\ EndsInFailedGrow(events)
    /\ Entries(b, Last(events).key) = {}
    /\ \A k \in DOMAIN a.mask_atlas.glyph_cache :
          /\ k \in DOMAIN b.mask_atlas.glyph_cache
          /\ SameDetails(a.mask_atlas.glyph_cache[k], b.mask_atlas.glyph_cache[k], origin(0))
    /\ \A k \in DOMAIN a.color_atlas.glyph_cache :
          /\ k \in DOMAIN b.color_atlas.glyph_cache
          /\ SameDetails(a.color_atlas.glyph_cache[k], b.color_atlas.glyph_cache[k], origin(0))
    /\ \A i \in Indices(events, "insert") :
          \E e \in Entries(b, events[i].key) :
              /\ (e.gpu_cache.tag = "InAtlas") = events[i].ok
              /\ origin(i) => (e.gpu_cache.x = events[i].x /\ e.gpu_cache.y = events[i].y)
    /\ CachedKeys(b) = CachedKeys(a) \cup EventKeys(events, "insert")

---------------------------------------------------------------------------
(* C5 *)

FailedGrows(events) == {i \in Indices(events, "grow") : ~events[i].ok}

\* C5: a glyph that hits AtlasFull ends the whole call: the call returns
\* Err(AtlasFull) with no renderable text area, and the failed atlas.grow is
\* the last call it makes (no later glyph is looked up, rasterized, allocated
\* or inserted); a call without such a glyph returns one renderable text area
\* per text area.
C5_ExhaustionAbortsCall ==
    prep.entry # "none"
        => /\ FailedGrows(prep.events) # {}
                => /\ ~prep.result.ok
                   /\ prep.result.areas = <<>>
                   /\ FailedGrows(prep.events) = {Len(prep.events)}
           /\ FailedGrows(prep.events) = {}
                => /\ prep.result.ok
                   /\ Len(prep.result.areas) = Len(prep.text_areas)

\* a call that failed in its second text area, with glyphs left unprepared
C5_Witness ==
    /\ prep.entry # "none"
    /\ ~prep.result.ok
    /\ Len(prep.text_areas) = 2
    /\ Cardinality(Indices(prep.events, "prepare_glyph")) > GlyphCount(<<prep.text_areas[1]>>)
    /\ Cardinality(Indices(prep.events, "prepare_glyph")) < GlyphCount(prep.text_areas)

---------------------------------------------------------------------------
(* C6 *)

\* the vertices of the areas, each once: per area, the glyphs of its line
\* batches in order, then its custom-glyph vertices
EachVertexOnce(areas) ==
    FlattenSeqs([i \in 1..Len(areas) |->
        FlattenSeqs([b \in 1..Len(areas[i].layout_glyphs) |->
                        areas[i].layout_glyphs[b].glyphs])
        \o areas[i].custom_glyphs])

\* the vertices the bound buffer holds for the draw
Stream == SubSeq(buffers[vertex_buffer].data, 1, glyph_vertices_len)

\* C6: the assembled stream holds every line-batch vertex and every
\* custom-glyph vertex of the areas exactly once, in input order, an area's
\* custom-glyph vertices after its line-batch vertices, and
\* glyph_vertices_len is their number.
C6_EachVertexOnce ==
    last_op = "assemble"
        => /\ Stream = EachVertexOnce(asm.areas)
           /\ glyph_vertices_len = Len(EachVertexOnce(asm.areas))

---------------------------------------------------------------------------
(* C7 *)

\* C7: vertex_buffer_size never decreases and after an assembly is at least
\* the byte length of the stream; an assembly of a stream shorter than the one
\* before leaves vertex_buffer_size and the buffer as they are and writes the
\* new stream at offset 0, the bytes beyond it untouched.
C7_BufferGrowthMonotone ==
    [][/\ vertex_buffer_size' >= vertex_buffer_size
       /\ last_op' = "assemble"
            => /\ vertex_buffer_size' >= asm'.call.len
               /\ asm'.call.len = glyph_vertices_len' * GlyphToRenderSize
       /\ (last_op' = "assemble" /\ asm.call.op # "none" /\ asm'.call.len < asm.call.len)
            => /\ vertex_buffer_size' = vertex_buffer_size
               /\ vertex_buffer' = vertex_buffer
               /\ Len(buffers') = Len(buffers)
               /\ ~buffers'[vertex_buffer].destroyed
               /\ asm'.call.op = "write_buffer"
               /\ asm'.call.buffer = vertex_buffer
               /\ asm'.call.offset = 0
               /\ Len(buffers'[vertex_buffer].data) = Len(buffers[vertex_buffer].data)
               /\ \A i \in (glyph_vertices_len' + 1)..Len(buffers[vertex_buffer].data) :
                     buffers'[vertex_buffer].data[i] = buffers[vertex_buffer].data[i]]_vars

\* a grown buffer into which a shorter stream has been written
C7_Witness ==
    /\ last_op = "assemble"
    /\ vertex_buffer_size > InitialBufferSize
    /\ asm.call.op = "write_buffer"
    /\ 0 < glyph_vertices_len
    /\ glyph_vertices_len < Len(buffers[vertex_buffer].data)

---------------------------------------------------------------------------
(* C8 *)

\* C8: an assembly either writes a stream that fits into the existing buffer,
\* which stays, or destroys the buffer and creates one that holds the stream,
\* without a write; a destroyed buffer is never written and never bound, and
\* render binds the buffer created last.
C8_DestroyRecreate ==
    [][/\ (last_op' = "assemble" /\ asm'.call.len <= vertex_buffer_size)
            => /\ asm'.call.op = "write_buffer"
               /\ asm'.call.buffer = vertex_buffer
               /\ ~asm'.call.was_destroyed
               /\ vertex_buffer' = vertex_buffer
               /\ Len(buffers') = Len(buffers)
               /\ ~buffers'[vertex_buffer].destroyed
       /\ (last_op' = "assemble" /\ asm'.call.len > vertex_buffer_size)
            => /\ asm'.call.op = "create_buffer"
               /\ asm'.call.destroyed = vertex_buffer
               /\ buffers'[vertex_buffer].destroyed
               /\ Len(buffers') = Len(buffers) + 1
               /\ vertex_buffer' = Len(buffers')
               /\ ~buffers'[vertex_buffer'].destroyed
               /\ Len(buffers'[vertex_buffer'].data) = glyph_vertices_len'
               /\ buffers'[vertex_buffer'].size = vertex_buffer_size'
       /\ last_op' = "render"
            => /\ pass'.vertex_buffer = Len(buffers)
               /\ ~pass'.bound_destroyed
       /\ \A b \in 1..Len(buffers) : buffers[b].destroyed => buffers'[b] = buffers[b]]_vars

\* a render after a write into the second buffer, the first one destroyed
C8_Witness ==
    /\ last_op = "render"
    /\ Len(buffers) = 2
    /\ buffers[1].destroyed
    /\ pass.vertex_buffer = 2
    /\ asm.call.op = "write_buffer"
    /\ asm.call.buffer = 2

---------------------------------------------------------------------------
(* C9 *)

IsPowerOfTwo(n) == \E e \in 0..30 : n = 2^e

\* C9: vertex_buffer_size is a power of two, a multiple of
\* COPY_BUFFER_ALIGNMENT and at least 4096; a buffer recreated for a stream of
\* L bytes has the smallest power of two that is at least L.
C9_CapacityShape ==
    /\ IsPowerOfTwo(vertex_buffer_size)
    /\ vertex_buffer_size % COPY_BUFFER_ALIGNMENT = 0
    /\ vertex_buffer_size >= 4096
    /\ asm.call.op = "create_buffer"
         => /\ vertex_buffer_size >= asm.call.len
            /\ vertex_buffer_size < 2 * asm.call.len

\* a buffer recreated for a stream of more than 4096 bytes
C9_Witness ==
    /\ asm.call.op = "create_buffer"
    /\ asm.call.len > 4096
    /\ vertex_buffer_size = 8192

---------------------------------------------------------------------------
(* C10 *)

\* C10: a render issues one draw, of vertices 0..4 and of as many instances as
\* the last assembly assembled vertices (0 before the first assembly),
\* whatever preparation and render calls came between the two.
C10_DrawsLastStream ==
    /\ last_op = "render"
         => /\ Len(pass.draws) = 1
            /\ pass.draws[1].vertices = <<0, 4>>
            /\ pass.draws[1].instances = <<0, asm.call.len \div GlyphToRenderSize>>
            /\ asm.call.op = "none" => pass.draws[1].instances = <<0, 0>>
    /\ last_op # "assemble" => glyph_vertices_len * GlyphToRenderSize = asm.call.len

\* a render that follows a preparation made after the last assembly
C10_Witness ==
    /\ last_op = "render"
    /\ pass.after = "prepare"
    /\ asm.call.op # "none"
    /\ pass.draws[1].instances[2] > 0

---------------------------------------------------------------------------
(* C11 *)

\* a render of a stream assembled before the preparation call that came just
\* before the render, a call in which atlas.grow returned true
StaleRender ==
    /\ last_op = "render"
    /\ pass.after = "prepare"
    /\ asm.call.op # "none"
    /\ glyph_vertices_len > 0
    /\ \E i \in Indices(prep.events, "grow") : prep.events[i].ok

\* C11: a render of a stream that was assembled before the atlas's most
\* recent growth returns a RenderError and issues no draw.
C11_StaleRenderIsError ==
    StaleRender => (pass.result = "RenderError" /\ pass.draws = <<>>)

---------------------------------------------------------------------------
(* C12 *)

\* the text area, the glyph, the clip bounds and the cached details of a call
\* that prepared one text area of one run of one glyph
Probed ==
    /\ prep.entry # "none"
    /\ Len(prep.text_areas) = 1
    /\ Len(prep.text_areas[1].runs) = 1
    /\ Len(prep.text_areas[1].runs[1].glyphs) = 1
    /\ prep.result.ok

ProbeArea == prep.text_areas[1]
ProbeGlyph == ProbeArea.runs[1].glyphs[1]
ProbeKey == TextKey(ProbeGlyph.id)
ProbeDetails == CHOOSE d \in Entries(atlas, ProbeKey) : TRUE
ProbeVertices == prep.result.areas[1].layout_glyphs[1].glyphs

\* the footprint [x, x + w) x [y, y + h) of the glyph
Footprint ==
    [x |-> ProbeArea.left + ProbeGlyph.x + ProbeDetails.left,
     y |-> ProbeArea.runs[1].line_y + ProbeArea.top + ProbeGlyph.y - ProbeDetails.top,
     w |-> ProbeDetails.width,
     h |-> ProbeDetails.height]

\* the clip bounds [min_x, max_x) x [min_y, max_y), clamped to the viewport
ClipRect ==
    [min_x |-> IF ProbeArea.bounds.left < 0 THEN 0 ELSE ProbeArea.bounds.left,
     min_y |-> IF ProbeArea.bounds.top < 0 THEN 0 ELSE ProbeArea.bounds.top,
     max_x |-> IF ProbeArea.bounds.right > ViewportWidth
               THEN ViewportWidth ELSE ProbeArea.bounds.right,
     max_y |-> IF ProbeArea.bounds.bottom > ViewportHeight
               THEN ViewportHeight ELSE ProbeArea.bounds.bottom]

\* the intersection of the footprint with the clip bounds
Intersection ==
    [x0 |-> IF Footprint.x < ClipRect.min_x THEN ClipRect.min_x ELSE Footprint.x,
     y0 |-> IF Footprint.y < ClipRect.min_y THEN ClipRect.min_y ELSE Footprint.y,
     x1 |-> IF Footprint.x + Footprint.w > ClipRect.max_x
            THEN ClipRect.max_x ELSE Footprint.x + Footprint.w,
     y1 |-> IF Footprint.y + Footprint.h > ClipRect.max_y
            THEN ClipRect.max_y ELSE Footprint.y + Footprint.h]

Overlaps == Intersection.x0 < Intersection.x1 /\ Intersection.y0 < Intersection.y1

Resident == Entries(atlas, ProbeKey) # {} /\ ProbeDetails.gpu_cache.tag = "InAtlas"

\* C12: a glyph whose footprint has an empty intersection with the clamped
\* clip bounds on either axis, the touching cases and empty bounds included,
\* yields no vertex; every emitted vertex has dim[0] > 0 and dim[1] > 0.
C12_OutOfBoundsRejected ==
    (Probed /\ Resident)
        => /\ ~Overlaps => ProbeVertices = <<>>
           /\ \A i \in 1..Len(ProbeVertices) :
                 ProbeVertices[i].dim[1] > 0 /\ ProbeVertices[i].dim[2] > 0

\* the same, for footprints at least one pixel away from the bounds
C12_FarOutOfBoundsRejected ==
    (Probed /\ Resident)
        => ((\/ Footprint.x > ClipRect.max_x
             \/ Footprint.x + Footprint.w < ClipRect.min_x
             \/ Footprint.y > ClipRect.max_y
             \/ Footprint.y + Footprint.h < ClipRect.min_y)
                => ProbeVertices = <<>>)

---------------------------------------------------------------------------
(* C13 *)

\* C13: for a footprint that overlaps the clip bounds one vertex is emitted;
\* its pos and dim are the intersection of the footprint with the bounds, and
\* its uv is the cached atlas origin moved by what was clipped at the left and
\* at the top edge (so a clip at the right or bottom edge changes dim alone).
C13_ClipIsIntersection ==
    (Probed /\ Resident /\ Overlaps)
        => /\ Len(ProbeVertices) = 1
           /\ ProbeVertices[1].pos = <<Intersection.x0, Intersection.y0>>
           /\ ProbeVertices[1].dim = <<Intersection.x1 - Intersection.x0,
                                       Intersection.y1 - Intersection.y0>>
           /\ ProbeVertices[1].uv =
                 <<ProbeDetails.gpu_cache.x + (Intersection.x0 - Footprint.x),
                   ProbeDetails.gpu_cache.y + (Intersection.y0 - Footprint.y)>>

\* a glyph that crosses the left and the bottom edge of the bounds
C13_Witness ==
    /\ Probed /\ Resident /\ Overlaps
    /\ Footprint.x < ClipRect.min_x
    /\ Footprint.y + Footprint.h > ClipRect.max_y
    /\ Len(ProbeVertices) = 1
    /\ ProbeVertices[1].uv[1] > ProbeDetails.gpu_cache.x

---------------------------------------------------------------------------
(* C14 *)

\* the position in the log of the n-th event of an operation
NthIndex(events, op, n) ==
    CHOOSE j \in Indices(events, op) :
        Cardinality({k \in Indices(events, op) : k <= j}) = n

LineArea == prep.text_areas[1]
LineGlyphs == LineArea.runs[1].glyphs
LineDetails(i) == CHOOSE d \in Entries(atlas, TextKey(LineGlyphs[i].id)) : TRUE

\* the footprint of the i-th glyph of the line
LineFootprint(i) ==
    [x |-> LineArea.left + LineGlyphs[i].x + LineDetails(i).left,
     y |-> LineArea.runs[1].line_y + LineArea.top + LineGlyphs[i].y - LineDetails(i).top,
     w |-> LineDetails(i).width,
     h |-> LineDetails(i).height]

\* the atlas origin the i-th glyph of the line was prepared with: that of the
\* lookup hit or insertion that came just before its return
LineOrigin(i) ==
    LET e == prep.events[NthIndex(prep.events, "return", i) - 1] IN <<e.x, e.y>>

\* a successful public preparation of one text area without custom glyphs,
\* with bounds covering the viewport and one line of non-empty glyphs that
\* all lie fully inside
UnclippedLine ==
    /\ prep.entry = "prepare_text_areas"
    /\ prep.result.ok
    /\ Len(prep.text_areas) = 1
    /\ LineArea.custom_glyphs = <<>>
    /\ Len(LineArea.runs) = 1
    /\ LineArea.bounds.left <= 0 /\ LineArea.bounds.top <= 0
    /\ LineArea.bounds.right >= ViewportWidth /\ LineArea.bounds.bottom >= ViewportHeight
    /\ \A i \in 1..Len(LineGlyphs) :
          /\ Entries(atlas, TextKey(LineGlyphs[i].id)) # {}
          /\ LineDetails(i).gpu_cache.tag = "InAtlas"
          /\ LineFootprint(i).x >= 0 /\ LineFootprint(i).y >= 0
          /\ LineFootprint(i).x + LineFootprint(i).w <= ViewportWidth
          /\ LineFootprint(i).y + LineFootprint(i).h <= ViewportHeight

\* C14: a line of N non-empty glyphs fully inside bounds that cover the
\* viewport, prepared by prepare_text_areas and assembled, gives N vertices in
\* run order, each with pos = requested position plus bearing, dim = the size
\* of the cached bitmap and uv = the atlas origin cached for the glyph when it
\* was prepared; a render that follows draws N instances.
C14_UnclippedLine ==
    (UnclippedLine /\ asm.call.op # "none")
        => /\ glyph_vertices_len = Len(LineGlyphs)
           /\ \A i \in 1..Len(LineGlyphs) :
                 /\ Stream[i].pos = <<LineFootprint(i).x, LineFootprint(i).y>>
                 /\ Stream[i].dim = <<LineFootprint(i).w, LineFootprint(i).h>>
                 /\ Stream[i].uv = LineOrigin(i)
           /\ last_op = "render" => pass.draws = <<[vertices |-> <<0, 4>>,
                                                   instances |-> <<0, Len(LineGlyphs)>>]>>

\* a rendered line of three glyphs, one of them placed after a growth
C14_Witness ==
    /\ UnclippedLine
    /\ last_op = "render"
    /\ pass.after = "assemble"
    /\ Len(LineGlyphs) = 3
    /\ \E i \in Indices(prep.events, "grow") : prep.events[i].ok
    /\ \E i \in 1..3 : Stream[i].uv # <<0, 0>>

---------------------------------------------------------------------------
(* C15 *)

\* C15: the conversion flag of an emitted vertex is ConvertToLinear exactly
\* when the glyph's content type is Color and the atlas color mode is
\* Accurate, and None otherwise; the first field is the content type of the
\* cached entry.
C15_LinearFlag ==
    (Probed /\ Resident /\ Overlaps)
        => \A i \in 1..Len(ProbeVertices) :
              /\ ProbeVertices[i].content_type_with_srgb[1] = ProbeDetails.gpu_cache.content_type
              /\ ProbeVertices[i].content_type_with_srgb[2] =
                    (IF ProbeDetails.gpu_cache.content_type = "Color"
                        /\ atlas.color_mode = "Accurate"
                     THEN 1 ELSE 0)

\* the flag as the code sets it: by the color mode alone
C15_FlagFollowsColorMode ==
    (Probed /\ Resident)
        => \A i \in 1..Len(ProbeVertices) :
              /\ ProbeVertices[i].content_type_with_srgb[1] = ProbeDetails.gpu_cache.content_type
              /\ ProbeVertices[i].content_type_with_srgb[2] =
                    (IF atlas.color_mode = "Accurate" THEN 1 ELSE 0)

---------------------------------------------------------------------------
(* C16 *)

\* the cache keys of the glyphs of the text areas in the order of the loops:
\* area by area, an area's custom glyphs, then the glyphs of its runs
SuppliedKeys(text_areas) ==
    FlattenSeqs([a \in 1..Len(text_areas) |->
        [c \in 1..Len(text_areas[a].custom_glyphs) |->
            CustomKey(text_areas[a].custom_glyphs[c].id,
                      text_areas[a].custom_glyphs[c].width,
                      text_areas[a].custom_glyphs[c].height)]
        \o FlattenSeqs([r \in 1..Len(text_areas[a].runs) |->
               [g \in 1..Len(text_areas[a].runs[r].glyphs) |->
                   TextKey(text_areas[a].runs[r].glyphs[g].id)]])])

RECURSIVE EventsOf(_, _)
EventsOf(events, op) ==
    IF events = <<>> THEN <<>>
    ELSE IF Head(events).op = op THEN <<Head(events)>> \o EventsOf(Tail(events), op)
    ELSE EventsOf(Tail(events), op)

IsPrefix(s, t) == Len(s) <= Len(t) /\ SubSeq(t, 1, Len(s)) = s

\* what tells the glyph of an event or of a vertex: 0 for a custom glyph
\* (colour 7), or the id of an ordinary glyph (its metadata, hence its depth)
EventTag(e) == IF e.key.kind = "Custom" THEN 0 ELSE e.key.id
VertexTag(v) == IF v.color = 7 THEN 0 ELSE v.depth

RECURSIVE Survivors(_)
Survivors(events) ==
    IF events = <<>> THEN <<>>
    ELSE IF Head(events).op = "return" /\ Head(events).ok
         THEN <<EventTag(Head(events))>> \o Survivors(Tail(events))
         ELSE Survivors(Tail(events))

StreamTags == [i \in 1..glyph_vertices_len |-> VertexTag(Stream[i])]

IsOrdinary(tag) == tag # 0

\* glyphs are processed in the order supplied
ProcessedInOrder ==
    prep.entry # "none"
        => LET started == EventsOf(prep.events, "prepare_glyph")
               keys == [i \in 1..Len(started) |-> started[i].key]
           IN  /\ IsPrefix(keys, SuppliedKeys(prep.text_areas))
               /\ prep.result.ok => keys = SuppliedKeys(prep.text_areas)

\* the assembly of what a preparation with the caller's depth mapping returned
AssembledPrepared ==
    /\ prep.entry = "with_depth_and_custom"
    /\ prep.result.ok
    /\ asm.call.op # "none"

C16_CustomProcessedFirstListedLast ==
    /\ AssembledPrepared
    /\ Survivors(prep.events) = <<0, 3>>
    /\ StreamTags = <<3, 0>>

---------------------------------------------------------------------------
(* C17 *)

InnerAtlases == {atlas.mask_atlas, atlas.color_atlas}

ResidentKeys(inner) ==
    {k \in DOMAIN inner.glyph_cache : inner.glyph_cache[k].gpu_cache.tag = "InAtlas"}

\* the rectangle [atlas_x, atlas_x + width) x [atlas_y, atlas_y + height)
EntryRect(d) ==
    [x |-> d.gpu_cache.x, y |-> d.gpu_cache.y, w |-> d.width, h |-> d.height]

InsideTexture(inner, r) ==
    /\ 0 <= r.x /\ r.x + r.w <= inner.size
    /\ 0 <= r.y /\ r.y + r.h <= inner.size

\* the entry's rectangle is the rectangle of the allocation that created it
OwnsAllocation(inner, d) ==
    \E r \in inner.allocations :
        /\ Some(r.id) = d.atlas_id
        /\ [x |-> r.x, y |-> r.y, w |-> r.w, h |-> r.h] = EntryRect(d)

\* an InAtlas entry is inserted right after the upload to the rectangle that
\* the successful try_allocate returned, with that rectangle's minimum corner
InsertedAtAllocation(events) ==
    \A i \in Indices(events, "insert") :
        events[i].ok
            => /\ i > 2
               /\ events[i - 1].op = "write_texture"
               /\ events[i - 1].x = events[i].x
               /\ events[i - 1].y = events[i].y
               /\ events[i - 2].op = "try_allocate" /\ events[i - 2].ok

\* C17: in each atlas (mask, colour) the rectangles of two distinct InAtlas
\* entries do not overlap and each lies inside the atlas's current texture;
\* each InAtlas entry's origin is the minimum corner of the rectangle of the
\* allocation that created it.
C17_AtlasDisjoint ==
    /\ \A inner \in InnerAtlases :
          /\ \A k \in ResidentKeys(inner) :
                /\ InsideTexture(inner, EntryRect(inner.glyph_cache[k]))
                /\ OwnsAllocation(inner, inner.glyph_cache[k])
          /\ \A k1, k2 \in ResidentKeys(inner) :
                k1 # k2
                    => LET r1 == EntryRect(inner.glyph_cache[k1])
                           r2 == EntryRect(inner.glyph_cache[k2])
                       IN  ~RectsOverlap(r1.x, r1.y, r1.w, r1.h,
                                         r2.x, r2.y, r2.w, r2.h)
    /\ InsertedAtAllocation(prep.events)

\* two glyphs resident in one atlas that grew, one of them away from column 0
C17_Witness ==
    \E inner \in InnerAtlases :
        /\ inner.size > InitialAtlasSize
        /\ \E k1, k2 \in ResidentKeys(inner) :
              /\ k1 # k2
              /\ inner.glyph_cache[k1].gpu_cache.x > 0
              /\ inner.glyph_cache[k1].gpu_cache.y = 0

---------------------------------------------------------------------------
(* C18 *)

\* a step that is a preparation call leaves the buffer state as it was
PrepareKeepsBuffers ==
    last_op' = "prepare"
        => UNCHANGED <<buffers, vertex_buffer, vertex_buffer_size, glyph_vertices_len>>

\* the preparation call just made returned Err(AtlasFull)
FailedPreparation == prep.entry # "none" /\ ~prep.result.ok

\* a render right after a failed preparation draws the stream of the last
\* assembly, from the buffer that assembly wrote or created
RenderAfterFailedPreparation ==
    (last_op = "render" /\ pass.after = "prepare" /\ FailedPreparation
        /\ asm.call.op # "none")
        => /\ pass.result = "Ok"
           /\ pass.vertex_buffer = asm.call.buffer
           /\ ~pass.bound_destroyed
           /\ pass.draws = <<[vertices |-> <<0, 4>>,
                              instances |-> <<0, Len(glyph_vertices(asm.areas))>>]>>
           /\ Stream = glyph_vertices(asm.areas)

\* a preparation made after a failed one, on the same renderer and atlas
PrepareAfterFailedPreparation ==
    (FailedPreparation /\ last_op' = "prepare" /\ prep'.result.ok)
        => /\ Len(prep'.result.areas) = Len(prep'.text_areas)
           /\ UNCHANGED <<buffers, vertex_buffer, vertex_buffer_size, glyph_vertices_len>>

\* C18: a preparation call, whether it returns Ok or Err(AtlasFull), leaves
\* vertex_buffer, vertex_buffer_size and glyph_vertices_len (and the buffers)
\* unchanged; a render issued after a failed preparation draws what the last
\* assembly produced, and a later preparation that succeeds returns its areas.
C18_PreparationKeepsBuffers ==
    /\ [][PrepareKeepsBuffers /\ PrepareAfterFailedPreparation]_vars
    /\ []RenderAfterFailedPreparation

\* a render of a non-empty stream right after a preparation that failed
C18_Witness ==
    /\ last_op = "render"
    /\ pass.after = "prepare"
    /\ FailedPreparation
    /\ asm.call.op # "none"
    /\ glyph_vertices_len > 0
    /\ pass.draws[1].instances[2] = glyph_vertices_len

---------------------------------------------------------------------------
(* C19 *)

\* the bitmap of a key is larger than the atlas can ever be
Oversized(key, rasterizer) ==
    /\ IsSome(get_glyph_image(key, rasterizer))
    /\ \/ Unwrap(get_glyph_image(key, rasterizer)).width > MaxAtlasSize
       \/ Unwrap(get_glyph_image(key, rasterizer)).height > MaxAtlasSize

\* what follows each call of the loop
LoopSteps(events) ==
    \A i \in 1..Len(events) :
        /\ (events[i].op = "try_allocate" /\ events[i].ok)
              => /\ i + 2 <= Len(events)
                 /\ events[i + 1].op = "write_texture" /\ events[i + 1].key = events[i].key
                 /\ events[i + 2].op = "insert" /\ events[i + 2].key = events[i].key
                 /\ events[i + 2].ok
        /\ (events[i].op = "try_allocate" /\ ~events[i].ok)
              => /\ i + 1 <= Len(events)
                 /\ events[i + 1].op = "grow" /\ events[i + 1].key = events[i].key
        /\ (events[i].op = "grow" /\ events[i].ok)
              => /\ i + 1 <= Len(events)
                 /\ events[i + 1].op = "try_allocate" /\ events[i + 1].key = events[i].key
        /\ (events[i].op = "grow" /\ ~events[i].ok) => i = Len(events)
        /\ events[i].op = "grow"
              => /\ i > 1
                 /\ events[i - 1].op = "try_allocate" /\ ~events[i - 1].ok
                 /\ events[i - 1].key = events[i].key
        /\ events[i].op = "write_texture"
              => /\ i > 1
                 /\ events[i - 1].op = "try_allocate" /\ events[i - 1].ok
                 /\ events[i - 1].key = events[i].key

\* growth is monotonic with a hard ceiling: each growth that succeeds leaves
\* the atlas larger than the growth before it did, and no larger than the
\* maximum
GrowthBounded(events) ==
    \A i \in Indices(events, "grow") :
        events[i].ok
            => /\ events[i].x <= MaxAtlasSize
               /\ \A j \in Indices(events, "grow") :
                     (j < i /\ events[j].ok /\ CallsOf(events, j) \cap {i} # {}
                        /\ events[j].key = events[i].key)
                        => events[j].x < events[i].x

\* C19: for a new non-empty bitmap the loop of try_allocate and atlas.grow
\* ends in one of two outcomes: try_allocate succeeds and the bitmap is
\* uploaded and cached, or atlas.grow returns false and the call returns
\* Err(AtlasFull).  AtlasFull is returned only directly after a grow that
\* returned false, an upload happens only directly after a try_allocate that
\* succeeded, and a bitmap larger than the maximum atlas size ends in
\* AtlasFull.
C19_AllocateLoopEnds ==
    prep.entry # "none"
        => /\ LoopSteps(prep.events)
           /\ GrowthBounded(prep.events)
           /\ prep.result.ok <=> ~EndsInFailedGrow(prep.events)
           /\ prep.events # <<>>
                 => \/ Last(prep.events).op = "return"
                    \/ EndsInFailedGrow(prep.events)
           /\ \A i \in Indices(prep.events, "try_allocate") :
                 Oversized(prep.events[i].key, prep.rasterizer)
                    => /\ ~prep.events[i].ok
                       /\ EndsInFailedGrow(prep.events)
                       /\ Last(prep.events).key = prep.events[i].key

\* a call that uploaded a bitmap and then, for a bitmap larger than the
\* maximum atlas size, grew the atlas, retried and ended in AtlasFull
C19_Witness ==
    /\ prep.entry # "none"
    /\ EndsInFailedGrow(prep.events)
    /\ Oversized(Last(prep.events).key, prep.rasterizer)
    /\ \E i \in Indices(prep.events, "grow") :
          prep.events[i].ok /\ prep.events[i].key = Last(prep.events).key
    /\ Indices(prep.events, "write_texture") # {}

---------------------------------------------------------------------------
(* C20 *)

\* no key is in both stores, and an InAtlas entry is in the store of its
\* content type
StoresExclusive(a) ==
    /\ DOMAIN a.mask_atlas.glyph_cache \cap DOMAIN a.color_atlas.glyph_cache = {}
    /\ \A k \in ResidentKeys(a.mask_atlas) :
          a.mask_atlas.glyph_cache[k].gpu_cache.content_type = "Mask"
    /\ \A k \in ResidentKeys(a.color_atlas) :
          a.color_atlas.glyph_cache[k].gpu_cache.content_type = "Color"

\* the position where the preparation of the glyph of call i started
StartOf(events, i) ==
    CHOOSE j \in Indices(events, "prepare_glyph") :
        j < i /\ \A m \in Indices(events, "prepare_glyph") : m < i => m <= j

\* A call on atlas `a` made `events` and left atlas `b`: the lookup of a key
\* hits exactly when a store of `a` or an earlier insertion of the call holds
\* the key, an entry is inserted only after the lookup missed, and the entries
\* of `a` are in the same store of `b`, not overwritten.
InsertsAfterMiss(a, events, b) ==
    /\ \A i \in Indices(events, "prepare_glyph") :
          LET known == \/ events[i].key \in CachedKeys(a)
                       \/ \E j \in KeyIndices(events, "insert", events[i].key) : j < i
          IN  /\ i + 1 <= Len(events)
              /\ events[i + 1].key = events[i].key
              /\ events[i + 1].op = (IF known THEN "hit" ELSE "get_glyph_image")
    /\ \A i \in Indices(events, "insert") :
          /\ events[i].key \notin CachedKeys(a)
          /\ \A j \in KeyIndices(events, "insert", events[i].key) : j = i
          /\ events[StartOf(events, i) + 1].op = "get_glyph_image"
          /\ events[i].key \in CachedKeys(b)
    /\ \A k \in DOMAIN a.mask_atlas.glyph_cache :
          /\ k \in DOMAIN b.mask_atlas.glyph_cache
          /\ SameDetails(a.mask_atlas.glyph_cache[k], b.mask_atlas.glyph_cache[k], FALSE)
    /\ \A k \in DOMAIN a.color_atlas.glyph_cache :
          /\ k \in DOMAIN b.color_atlas.glyph_cache
          /\ SameDetails(a.color_atlas.glyph_cache[k], b.color_atlas.glyph_cache[k], FALSE)

\* C20: no cache key is in both the mask store and the colour store.  A lookup
\* consults both stores, an entry is inserted only after the lookup missed in
\* both, an InAtlas entry is in the store of its bitmap's content type, and an
\* insertion never overwrites an entry.
C20_StoreExclusivity ==
    /\ []StoresExclusive(atlas)
    /\ [][last_op' = "prepare" => InsertsAfterMiss(atlas, prep'.events, atlas')]_vars

\* a custom glyph cached in the mask store is found by a call whose
\* rasterizer would have produced a colour bitmap for it
C20_Witness ==
    /\ prep.rasterizer = "Color"
    /\ \E i \in Indices(prep.events, "hit") :
          /\ prep.events[i].key.kind = "Custom"
          /\ prep.events[i].key \in ResidentKeys(atlas.mask_atlas)
    /\ ResidentKeys(atlas.color_atlas) # {}

---------------------------------------------------------------------------
(* C21 *)

\* a vertex lies inside the clamped bounds, is no larger than the cached
\* bitmap, and reads inside the glyph's atlas rectangle
VertexContained(v) ==
    /\ ClipRect.min_x <= v.pos[1]
    /\ v.pos[1] + v.dim[1] <= ClipRect.max_x
    /\ ClipRect.min_y <= v.pos[2]
    /\ v.pos[2] + v.dim[2] <= ClipRect.max_y
    /\ v.dim[1] <= ProbeDetails.width
    /\ v.dim[2] <= ProbeDetails.height
    /\ ProbeDetails.gpu_cache.x <= v.uv[1]
    /\ v.uv[1] + v.dim[1] <= ProbeDetails.gpu_cache.x + ProbeDetails.width
    /\ ProbeDetails.gpu_cache.y <= v.uv[2]
    /\ v.uv[2] + v.dim[2] <= ProbeDetails.gpu_cache.y + ProbeDetails.height

\* the clamping left bounds that are not inverted
ProperBounds == ClipRect.min_x <= ClipRect.max_x /\ ClipRect.min_y <= ClipRect.max_y

\* C21: for any text-area bounds, bounds partly or wholly outside the
\* viewport included, every emitted vertex lies inside the clamped bounds, has
\* dim no larger than the cached width and height (no negative extent turned
\* into a large unsigned dim), and uv + dim inside the glyph's atlas rectangle.
C21_VerticesInsideBounds ==
    (Probed /\ Resident)
        => \A i \in 1..Len(ProbeVertices) : VertexContained(ProbeVertices[i])

\* the same, for bounds whose clamping is not inverted
C21_VerticesInsideProperBounds ==
    (Probed /\ Resident /\ ProperBounds)
        => \A i \in 1..Len(ProbeVertices) : VertexContained(ProbeVertices[i])

\* a vertex whose dim is a negative extent converted to an unsigned 16-bit
\* number
C21_NegativeExtentEmitted ==
    /\ Probed /\ Resident
    /\ \E i \in 1..Len(ProbeVertices) :
          \/ ProbeVertices[i].dim[1] = U16 - 1
          \/ ProbeVertices[i].dim[2] = U16 - 1

---------------------------------------------------------------------------
(* C22 *)

\* C22: in every state reached by construction, preparation, assembly and
\* render calls in any order, glyph_vertices_len vertices fit in
\* vertex_buffer_size bytes of the bound buffer, which is alive and of that
\* size, and the first glyph_vertices_len vertices it holds are the vertices
\* of the most recent assembly (none before the first assembly).
C22_DrawInsideBuffer ==
    /\ glyph_vertices_len * GlyphToRenderSize <= vertex_buffer_size
    /\ vertex_buffer \in 1..Len(buffers)
    /\ ~buffers[vertex_buffer].destroyed
    /\ buffers[vertex_buffer].size = vertex_buffer_size
    /\ glyph_vertices_len <= Len(buffers[vertex_buffer].data)
    /\ glyph_vertices_len = Len(glyph_vertices(asm.areas))
    /\ Stream = glyph_vertices(asm.areas)
    /\ last_op = "render" => pass.draws[1].instances = <<0, glyph_vertices_len>>

\* a render, after a preparation, of a stream written over a longer one in a
\* buffer that was recreated: stale vertices lie beyond the stream
C22_Witness ==
    /\ last_op = "render"
    /\ prep.entry # "none"
    /\ vertex_buffer > 1
    /\ asm.call.op = "write_buffer"
    /\ 0 < glyph_vertices_len
    /\ glyph_vertices_len < Len(buffers[vertex_buffer].data)

---------------------------------------------------------------------------
(* C23 *)

CustomKeys(keys) == {k \in keys : k.kind = "Custom"}

\* the vertices of the result of a call, custom-glyph vertices and line
\* batches, each once
ResultVertices(areas) ==
    FlattenSeqs([i \in 1..Len(areas) |->
        areas[i].custom_glyphs
        \o FlattenSeqs([b \in 1..Len(areas[i].layout_glyphs) |->
                           areas[i].layout_glyphs[b].glyphs])])

\* the resident custom-glyph keys of an atlas
ResidentCustomKeys(a) ==
    CustomKeys(ResidentKeys(a.mask_atlas) \cup ResidentKeys(a.color_atlas))

\* A call of the public entry on atlas `a` with `text_areas` made `events`,
\* returned `result` and left atlas `b`.
PublicCall(a, text_areas, events, result, b) ==
    \* no custom-glyph key is added to a store
    /\ CustomKeys(CachedKeys(b)) = CustomKeys(CachedKeys(a))
    /\ \A i \in Indices(events, "insert") : events[i].key.kind # "Custom"
    \* the rasterizer is reached for every custom glyph of non-zero size whose
    \* key no store holds, and never yields a vertex
    /\ \A i \in Indices(events, "prepare_glyph") :
          (events[i].key.kind = "Custom" /\ events[i].key \notin CachedKeys(a))
             => /\ i + 1 <= Len(events)
                /\ events[i + 1] = Event("get_glyph_image", events[i].key, FALSE, 0, 0)
                /\ IF InvokesCustomRasterizer(events[i].key)
                   THEN /\ i + 3 <= Len(events)
                        /\ events[i + 2] = Event("rasterize_custom_glyph",
                                                 events[i].key, FALSE, 0, 0)
                        /\ events[i + 3] = Event("return", events[i].key, FALSE, 0, 0)
                   ELSE /\ i + 2 <= Len(events)
                        /\ events[i + 2] = Event("return", events[i].key, FALSE, 0, 0)
    /\ result.ok
          => \* every custom glyph supplied is processed
             /\ LET started == EventsOf(events, "prepare_glyph") IN
                [i \in 1..Len(started) |-> started[i].key] = SuppliedKeys(text_areas)
             \* custom glyphs give no vertex, unless their key was resident
             /\ \A i \in 1..Len(result.areas) :
                   /\ Len(result.areas[i].custom_glyphs)
                         <= Cardinality({c \in 1..Len(text_areas[i].custom_glyphs) :
                               CustomKey(text_areas[i].custom_glyphs[c].id,
                                         text_areas[i].custom_glyphs[c].width,
                                         text_areas[i].custom_glyphs[c].height)
                                  \in ResidentCustomKeys(a)})
             \* every vertex has depth 0
             /\ LET vertices == ResultVertices(result.areas) IN
                \A i \in 1..Len(vertices) : vertices[i].depth = 0

\* C23: through the public entry prepare_text_areas custom glyphs never
\* become vertices (unless their key was already cached as InAtlas), no
\* custom-glyph key is added to either store, the rasterizer is reached again
\* on every call for every custom glyph of non-zero size, and every emitted
\* vertex has depth 0.
C23_PublicEntryNoCustom ==
    [][(last_op' = "prepare" /\ prep'.entry = "prepare_text_areas")
          => PublicCall(atlas, prep'.text_areas, prep'.events, prep'.result, atlas')]_vars

\* a public call, on an atlas that holds glyphs of earlier calls and no custom
\* glyph, that reached the rasterizer for a custom glyph and returned vertices
\* of ordinary glyphs alone
C23_Witness ==
    /\ prep.entry = "prepare_text_areas"
    /\ prep.result.ok
    /\ Indices(prep.events, "rasterize_custom_glyph") # {}
    /\ Indices(prep.events, "hit") # {}
    /\ ResultVertices(prep.result.areas) # <<>>
    /\ \A i \in 1..Len(prep.result.areas) : prep.result.areas[i].custom_glyphs = <<>>
    /\ CustomKeys(CachedKeys(atlas)) = {}

---------------------------------------------------------------------------
(* C24 *)

\* a successful public preparation of one text area of one line
PreparedLine ==
    /\ prep.entry = "prepare_text_areas"
    /\ prep.result.ok
    /\ Len(prep.text_areas) = 1
    /\ LineArea.custom_glyphs = <<>>
    /\ Len(LineArea.runs) = 1

LineVertices == prep.result.areas[1].layout_glyphs[1].glyphs

\* the returns of the call that gave a vertex
Returned == {j \in Indices(prep.events, "return") : prep.events[j].ok}

\* the glyph of the line and the vertex of the result that belong to the
\* return at position j: the glyphs return one by one, in line order
GlyphOf(j) == Cardinality({k \in Indices(prep.events, "return") : k <= j})
VertexOf(j) == Cardinality({k \in Returned : k <= j})

\* the vertex of the return at position j reads the atlas where the cache, as
\* the call leaves it, holds the glyph: uv is the cached origin moved by what
\* was clipped at the left and at the top
AgreesAtReturn(j) ==
    LET key == prep.events[j].key
        v == LineVertices[VertexOf(j)]
        f == LineFootprint(GlyphOf(j))
    IN  /\ Entries(atlas, key) # {}
        /\ \A d \in Entries(atlas, key) :
              /\ d.gpu_cache.tag = "InAtlas"
              /\ v.uv = <<d.gpu_cache.x + (v.pos[1] - f.x),
                          d.gpu_cache.y + (v.pos[2] - f.y)>>

\* C24: when a prepare_text_areas call returns Ok, every vertex of its result
\* has uv equal to the atlas origin the cache holds for its key when the call
\* returns, plus the left/top clip shift, and the key is resident; also for
\* vertices produced before a glyph whose allocation grew the atlas.
C24_VerticesAgreeAtReturn ==
    PreparedLine
        => /\ Len(LineVertices) = Cardinality(Returned)
           /\ \A j \in Returned : AgreesAtReturn(j)

\* the same, for the vertices produced after the last growth of the call
C24_VerticesAgreeAfterGrowth ==
    PreparedLine
        => /\ Len(LineVertices) = Cardinality(Returned)
           /\ \A j \in Returned :
                 ~GrowthBetween(prep.events, j, Len(prep.events) + 1)
                    => AgreesAtReturn(j)

\* a vertex produced before a growth of the call reads the atlas where its
\* glyph no longer is
C24_StaleVertex ==
    /\ PreparedLine
    /\ \E j \in Returned :
          /\ GrowthBetween(prep.events, j, Len(prep.events) + 1)
          /\ ~AgreesAtReturn(j)

====
